---- MODULE Spec2Model ----
(***************************************************************************)
(* Model of tensorflow/python/autograph/pyct/compiler.py: ast_to_source   *)
(* (rendering of AST nodes to source text) and ast_to_object (writing the *)
(* text to a temporary file, loading it as a module, attaching a source   *)
(* map, registering the exit-time removal of the file).                   *)
(*                                                                         *)
(* A text is a sequence of one-character strings.  A node is modelled by  *)
(* the text the astor generator emits for it.                             *)
(***************************************************************************)
EXTENDS Integers, Sequences, FiniteSets, TLC

\* ------------------------------------------------------------------ bounds
\* Longest text the generator emits for one node (rendering model).
MaxLen == 3
\* Number of threads that may each run one ast_to_object call.
NumThreads == 2

\* ------------------------------------------------------------------ texts
NL == "\n"
SP == " "
\* Stands for a top-level statement binding the name ag_source_map__.
SourceMapName == "k"
None == <<"None">>

Whitespace == {SP, NL}
RenderChars == {"a", SP, NL}

RECURSIVE TextsUpTo(_)
TextsUpTo(n) ==
  IF n = 0 THEN {<<>>}
  ELSE LET shorter == TextsUpTo(n - 1)
       IN shorter \cup {Append(s, c) : s \in {x \in shorter : Len(x) = n - 1}, c \in RenderChars}

\* str.split('\n'): the pieces between newlines, always at least one piece.
RECURSIVE SplitAcc(_, _, _)
SplitAcc(s, done, cur) ==
  IF s = <<>> THEN Append(done, cur)
  ELSE IF Head(s) = NL THEN SplitAcc(Tail(s), Append(done, cur), <<>>)
  ELSE SplitAcc(Tail(s), done, Append(cur, Head(s)))

Split(s) == SplitAcc(s, <<>>, <<>>)

\* '\n'.join(lines)
RECURSIVE Join(_)
Join(lines) ==
  IF lines = <<>> THEN <<>>
  ELSE IF Len(lines) = 1 THEN lines[1]
  ELSE lines[1] \o <<NL>> \o Join(Tail(lines))

\* str.rstrip(): trailing whitespace removed.
RECURSIVE RStrip(_)
RStrip(l) ==
  IF l = <<>> THEN <<>>
  ELSE IF l[Len(l)] \in Whitespace THEN RStrip(SubSeq(l, 1, Len(l) - 1))
  ELSE l

\* The condition of the trimming loop as a bug would write it: every blank
\* line is dropped, not only the leading ones.
KeepLineNonBlankOnly(l, trimmed) == RStrip(l) # <<>>

\* `if l.rstrip() or trimmed_code_lines` (truthiness of a str and of a list).
KeepLine(l, trimmed) == RStrip(l) # <<>> \/ trimmed # <<>>

\* The loop over code_lines that builds trimmed_code_lines.
RECURSIVE TrimAcc(_, _)
TrimAcc(lines, trimmed) ==
  IF lines = <<>> THEN trimmed
  ELSE TrimAcc(Tail(lines),
               IF KeepLine(Head(lines), trimmed) THEN Append(trimmed, Head(lines))
               ELSE trimmed)

TrimLeading(lines) == TrimAcc(lines, <<>>)

\* Split, trim the leading blank lines, join again.
StripLeadingBlankLines(code) == Join(TrimLeading(Split(code)))

\* generator.visit(n); generator.result.append('\n')
EmitNode(result, n) == result \o n \o <<NL>>

\* The loop run over the nodes last to first.
RECURSIVE EmitAllReversed(_, _)
EmitAllReversed(nodes, result) ==
  IF nodes = <<>> THEN result
  ELSE EmitAllReversed(SubSeq(nodes, 1, Len(nodes) - 1),
                       result \o nodes[Len(nodes)] \o <<NL>>)

\* The loop over the nodes, in order, then ''.join(map(str, result)).
RECURSIVE EmitAll(_, _)
EmitAll(nodes, result) ==
  IF nodes = <<>> THEN result
  ELSE EmitAll(Tail(nodes), EmitNode(result, Head(nodes)))

\* The argument of a call: one node, or a list of nodes.
Node(text) == [is_seq |-> FALSE, node |-> text, list |-> <<>>]
NodeList(texts) == [is_seq |-> TRUE, node |-> <<>>, list |-> texts]

\* `if not isinstance(node, (list, tuple)): node = (node,)`
AsTuple(arg) == IF arg.is_seq THEN arg.list ELSE <<arg.node>>

ast_to_source(arg) == StripLeadingBlankLines(EmitAll(AsTuple(arg), <<>>))


\* ------------------------------------------------------ ast_to_object: data
Threads == 1 .. NumThreads
MainThreads == {1}

\* tempfile.NamedTemporaryFile(suffix='.py'): directory, random part, suffix.
TempIds == {<<"1", "2", "3", "4", "5">>[i] : i \in 1 .. NumThreads}
TempPath(id) == <<"/", "t", id, ".", "p", "y">>

\* A name chosen without looking at the files that exist.
AnyPaths(files) == {TempPath(id) : id \in TempIds}

\* The names mkstemp can return: it creates the file exclusively, so never one
\* that exists.
FreshPaths(files) == {TempPath(id) : id \in TempIds} \ DOMAIN files

\* os.path.basename
RECURSIVE Basename(_)
Basename(path) ==
  IF \E i \in 1 .. Len(path) : path[i] = "/"
  THEN Basename(Tail(path))
  ELSE path

\* module_name = os.path.basename(f.name[:-3])
ModuleName(path) == Basename(SubSeq(path, 1, Len(path) - 3))

\* The prefix joined without the newline.
PrefixedNoNewline(source_prefix, source) ==
  IF source_prefix # None /\ source_prefix # <<>>
  THEN source_prefix \o source
  ELSE source

\* `if source_prefix: source = source_prefix + '\n' + source` (None and the
\* empty string are both falsy).
Prefixed(source_prefix, source) ==
  IF source_prefix # None /\ source_prefix # <<>>
  THEN source_prefix \o <<NL>> \o source
  ELSE source

\* indices = range(-len(nodes), 0); nodes is a tuple by then.
Indices(nodes) == [i \in 1 .. Len(nodes) |-> i - Len(nodes) - 1]

NoMap == [kind |-> "none"]
NoResult == [kind |-> "none"]

\* origin_info.create_source_map(nodes, source, f.name, indices): the
\* collaborator's result, identified by the arguments it was given.
create_source_map(nodes, source, filename, indices) ==
  [kind |-> "map", nodes |-> nodes, source |-> source,
   filename |-> filename, indices |-> indices]

\* Executing the text as a module body.  A non-blank line that starts with a
\* space is an unexpected indent; any other non-blank line is a statement
\* that binds the name its first character stands for.
StatementLines(text) ==
  {i \in 1 .. Len(Split(text)) : RStrip(Split(text)[i]) # <<>>}

SyntaxOK(text) == \A i \in StatementLines(text) : Split(text)[i][1] # SP

ExecNamespace(text) ==
  [n \in {Split(text)[i][1] : i \in StatementLines(text)} |-> [kind |-> "user"]]

\* imp.load_source runs the text in sys.modules[name] when that module exists
\* already, in a new module otherwise.
LoadedNamespace(modules, name, text) ==
  IF name \in DOMAIN modules
  THEN ExecNamespace(text) @@ modules[name]
  ELSE ExecNamespace(text)

\* The guard left out.
NeverCollides(namespace) == FALSE

\* `source_map_name not in compiled_nodes.__dict__` negated.
Collides(namespace) == SourceMapName \in DOMAIN namespace

\* The namespace replaced instead of extended.
AttachReplacing(namespace, source_map) == SourceMapName :> source_map

\* compiled_nodes.__dict__[source_map_name] = source_map
Attach(namespace, source_map) == (SourceMapName :> source_map) @@ namespace

\* Registration whatever the flag says.
AlwaysRegister(delete_on_exit) == TRUE

\* `if delete_on_exit:`
ShouldRegister(delete_on_exit) == delete_on_exit

\* NamedTemporaryFile's default: the file is removed when it is closed.
DeleteOnCloseDefault == TRUE

\* NamedTemporaryFile(..., delete=False)
DeleteOnClose == FALSE

\* The statements in an order that loads before it computes the source map.
NextStatementMapAfterLoad(stmt, include_source_map) ==
  CASE stmt = "create" -> "write"
    [] stmt = "write" -> "close"
    [] stmt = "close" -> "register"
    [] stmt = "register" -> "load"
    [] stmt = "load" -> IF include_source_map THEN "map" ELSE "done"
    [] stmt = "map" -> "attach"
    [] stmt = "attach" -> "done"

\* The statement that follows stmt when stmt completes normally.
NextStatement(stmt, include_source_map) ==
  CASE stmt = "create" -> "write"
    [] stmt = "write" -> IF include_source_map THEN "map" ELSE "close"
    [] stmt = "map" -> "close"
    [] stmt = "close" -> "register"
    [] stmt = "register" -> "load"
    [] stmt = "load" -> IF include_source_map THEN "attach" ELSE "done"
    [] stmt = "attach" -> "done"

\* Where an exception raised by stmt goes: out of the with block through the
\* close of the file, or straight out of the call.
OnRaise(stmt) == IF stmt \in {"write", "map"} THEN "close" ELSE "failed"

\* ------------------------------------------------------ ast_to_object: inputs

\* One statement, the statement that binds ag_source_map__, a line with an
\* unexpected indent, and a list of two nodes the second of which is emitted
\* after a blank line.
Programs ==
  {Node(<<"a">>), Node(<<SourceMapName>>), Node(<<SP, "a">>),
   NodeList(<< <<"a">>, <<NL, "b">> >>)}

Prefixes == {None, <<>>, <<"p">>}

AllArgs ==
  [nodes : Programs, include_source_map : BOOLEAN,
   source_prefix : Prefixes, delete_on_exit : BOOLEAN]

CallArgs(nodes, include_source_map, source_prefix, delete_on_exit) ==
  [nodes |-> nodes, include_source_map |-> include_source_map,
   source_prefix |-> source_prefix, delete_on_exit |-> delete_on_exit]

\* The calls the threads choose from when they run concurrently: texts that
\* differ from call to call, both values of each flag, one text that binds
\* the reserved name and one that does not compile.
ConcArgs ==
  {CallArgs(Node(<<"a">>), FALSE, None, TRUE),
   CallArgs(Node(<<"b">>), TRUE, None, TRUE),
   CallArgs(Node(<<SourceMapName>>), TRUE, None, FALSE),
   CallArgs(Node(<<SP, "c">>), FALSE, None, TRUE)}

NoArgs ==
  [nodes |-> Node(<<>>), include_source_map |-> FALSE,
   source_prefix |-> None, delete_on_exit |-> FALSE]

IdleCall ==
  [pc |-> "idle", args |-> NoArgs, source |-> <<>>, f_name |-> None,
   written |-> <<>>, exc |-> "none", source_map |-> NoMap,
   module_name |-> None, loaded_text |-> <<>>, loaded_ns |-> <<>>,
   result |-> NoResult, events |-> <<>>]


\* ------------------------------------------------------------------ state
VARIABLES
  call,         \* per thread: the frame of its ast_to_object call
  fs,           \* the files that exist: path -> content on disk
  registry,     \* atexit's list of registered callbacks (the calls' closures)
  sys_modules,  \* module name -> namespace (__dict__)
  phase,        \* "running", or "exiting" once interpreter shutdown began
  exit_i,       \* index of the next atexit callback to run (last first)
  rin,          \* rendering: the argument of ast_to_source
  rout,         \* rendering: the text returned
  rstage        \* rendering: "off", "input", "rendered", "again"

vars == <<call, fs, registry, sys_modules, phase, exit_i, rin, rout, rstage>>
procVars == <<call, fs, registry, sys_modules, phase, exit_i>>
renderVars == <<rin, rout, rstage>>

ProcInit ==
  /\ call = [t \in Threads |-> IdleCall]
  /\ fs = <<>>
  /\ registry = <<>>
  /\ sys_modules = <<>>
  /\ phase = "running"
  /\ exit_i = 0

Init ==
  /\ ProcInit
  /\ rin = Node(<<>>)
  /\ rout = <<>>
  /\ rstage = "off"

Remove(f, x) == [y \in DOMAIN f \ {x} |-> f[y]]

\* Lines 100-108: the arguments are normalised, the text rendered and
\* prefixed, and the temporary file created (empty).
Enter(t, argSet) ==
  /\ phase = "running"
  /\ call[t].pc = "idle"
  /\ \E a \in argSet, path \in FreshPaths(fs) :
       /\ call' = [call EXCEPT ![t] =
            [IdleCall EXCEPT
               !.pc = NextStatement("create", a.include_source_map),
               !.args = a,
               !.source = Prefixed(a.source_prefix, ast_to_source(NodeList(AsTuple(a.nodes)))),
               !.f_name = path,
               !.module_name = ModuleName(path),
               !.events = <<"create">>]]
       /\ fs' = (path :> <<>>) @@ fs
  /\ UNCHANGED <<registry, sys_modules, phase, exit_i, renderVars>>

\* Line 110, f.write(source): the text goes to the file object's buffer; on
\* disk is nothing of it yet or, if the buffer was flushed, all of it.
WriteOk(t) ==
  /\ call[t].pc = "write"
  /\ \E n \in {0, Len(call[t].source)} :
       fs' = [fs EXCEPT ![call[t].f_name] = SubSeq(call[t].source, 1, n)]
  /\ call' = [call EXCEPT
       ![t].pc = NextStatement("write", call[t].args.include_source_map),
       ![t].written = call[t].source,
       ![t].events = Append(@, "write")]
  /\ UNCHANGED <<registry, sys_modules, phase, exit_i, renderVars>>

\* Line 110 raising (the disk is full, say): a proper prefix is on disk.
WriteFail(t) ==
  /\ call[t].pc = "write"
  /\ \E n \in 0 .. Len(call[t].source) - 1 :
       /\ fs' = [fs EXCEPT ![call[t].f_name] = SubSeq(call[t].source, 1, n)]
       /\ call' = [call EXCEPT
            ![t].pc = OnRaise("write"),
            ![t].written = SubSeq(call[t].source, 1, n),
            ![t].exc = "io",
            ![t].events = Append(@, "raise")]
  /\ UNCHANGED <<registry, sys_modules, phase, exit_i, renderVars>>

\* Lines 112-118: the indices and the call of the collaborator.
SourceMapOk(t) ==
  /\ call[t].pc = "map"
  /\ call' = [call EXCEPT
       ![t].pc = NextStatement("map", call[t].args.include_source_map),
       ![t].source_map =
          create_source_map(AsTuple(call[t].args.nodes), call[t].source,
                            call[t].f_name, Indices(AsTuple(call[t].args.nodes))),
       ![t].events = Append(@, "map")]
  /\ UNCHANGED <<fs, registry, sys_modules, phase, exit_i, renderVars>>

\* Line 118 raising: the collaborator fails.
SourceMapFail(t) ==
  /\ call[t].pc = "map"
  /\ call' = [call EXCEPT
       ![t].pc = OnRaise("map"),
       ![t].exc = "map",
       ![t].events = Append(@, "raise")]
  /\ UNCHANGED <<fs, registry, sys_modules, phase, exit_i, renderVars>>

\* The end of the with block: the file is flushed and closed; an exception
\* raised in the block leaves the call here.
Close(t) ==
  /\ call[t].pc = "close"
  /\ fs' = IF DeleteOnClose THEN Remove(fs, call[t].f_name)
           ELSE [fs EXCEPT ![call[t].f_name] = call[t].written]
  /\ call' = [call EXCEPT
       ![t].pc = IF call[t].exc = "none"
                 THEN NextStatement("close", call[t].args.include_source_map)
                 ELSE "failed",
       ![t].events = Append(@, "close")]
  /\ UNCHANGED <<registry, sys_modules, phase, exit_i, renderVars>>

\* Lines 121-122: atexit.register(lambda: os.remove(f.name))
Register(t) ==
  /\ call[t].pc = "register"
  /\ registry' = IF ShouldRegister(call[t].args.delete_on_exit)
                 THEN Append(registry, t) ELSE registry
  /\ call' = [call EXCEPT
       ![t].pc = NextStatement("register", call[t].args.include_source_map),
       ![t].events = IF ShouldRegister(call[t].args.delete_on_exit)
                     THEN Append(@, "register") ELSE @]
  /\ UNCHANGED <<fs, sys_modules, phase, exit_i, renderVars>>

\* What `return compiled_nodes, source` hands back.
Returned(c) == [kind |-> "returned", unit |-> c.module_name, source |-> c.source]

\* Line 123, imp.load_source(module_name, f.name), completing normally; with
\* include_source_map false the call returns right after it.
LoadOk(t) ==
  /\ call[t].pc = "load"
  /\ call[t].f_name \in DOMAIN fs
  /\ SyntaxOK(fs[call[t].f_name])
  /\ LET text == fs[call[t].f_name]
         ns == LoadedNamespace(sys_modules, call[t].module_name, text)
         next == NextStatement("load", call[t].args.include_source_map)
     IN /\ sys_modules' = (call[t].module_name :> ns) @@ sys_modules
        /\ call' = [call EXCEPT
             ![t].pc = next,
             ![t].loaded_text = text,
             ![t].loaded_ns = ns,
             ![t].result = IF next = "done" THEN Returned(call[t]) ELSE @,
             ![t].events = IF next = "done" THEN @ \o <<"load", "return">>
                           ELSE Append(@, "load")]
  /\ UNCHANGED <<fs, registry, phase, exit_i, renderVars>>

\* Line 123 raising: the file is missing or its text does not compile.
LoadFail(t) ==
  /\ call[t].pc = "load"
  /\ \/ call[t].f_name \notin DOMAIN fs
     \/ /\ call[t].f_name \in DOMAIN fs
        /\ ~SyntaxOK(fs[call[t].f_name])
  /\ call' = [call EXCEPT
       ![t].pc = OnRaise("load"),
       ![t].exc = "load",
       ![t].events = Append(@, "raise")]
  /\ UNCHANGED <<fs, registry, sys_modules, phase, exit_i, renderVars>>

\* Lines 129-137 with the key free: the map is attached and the call returns.
AttachOk(t) ==
  /\ call[t].pc = "attach"
  /\ ~Collides(sys_modules[call[t].module_name])
  /\ sys_modules' = [sys_modules EXCEPT
       ![call[t].module_name] = Attach(@, call[t].source_map)]
  /\ call' = [call EXCEPT
       ![t].pc = NextStatement("attach", call[t].args.include_source_map),
       ![t].result = Returned(call[t]),
       ![t].events = @ \o <<"check", "attach", "return">>]
  /\ UNCHANGED <<fs, registry, phase, exit_i, renderVars>>

\* Lines 132-134: the assertion fails, the call raises.
AttachCollision(t) ==
  /\ call[t].pc = "attach"
  /\ Collides(sys_modules[call[t].module_name])
  /\ call' = [call EXCEPT
       ![t].pc = OnRaise("attach"),
       ![t].exc = "collision",
       ![t].events = @ \o <<"check", "raise">>]
  /\ UNCHANGED <<fs, registry, sys_modules, phase, exit_i, renderVars>>

\* The closure registered by call t reads f.name of that call's frame.
ExitTarget(t) == call[t].f_name

\* Interpreter shutdown begins once no call is running.
Exit ==
  /\ phase = "running"
  /\ \A t \in Threads : call[t].pc \in {"idle", "done", "failed"}
  /\ phase' = "exiting"
  /\ exit_i' = Len(registry)
  /\ UNCHANGED <<call, fs, registry, sys_modules, renderVars>>

\* atexit runs the callbacks last registered first; os.remove of a missing
\* file raises, which atexit reports and ignores.
RunExitFunc ==
  /\ phase = "exiting"
  /\ exit_i > 0
  /\ fs' = Remove(fs, ExitTarget(registry[exit_i]))
  /\ exit_i' = exit_i - 1
  /\ UNCHANGED <<call, registry, sys_modules, phase, renderVars>>

Exited == phase = "exiting" /\ exit_i = 0

Step(t, argSet) ==
  \/ Enter(t, argSet)
  \/ WriteOk(t)
  \/ WriteFail(t)
  \/ SourceMapOk(t)
  \/ SourceMapFail(t)
  \/ Close(t)
  \/ Register(t)
  \/ LoadOk(t)
  \/ LoadFail(t)
  \/ AttachOk(t)
  \/ AttachCollision(t)

\* One call, every combination of arguments.
Next ==
  \/ \E t \in MainThreads : Step(t, AllArgs)
  \/ Exit
  \/ RunExitFunc

Spec == Init /\ [][Next]_vars

\* One call per thread, interleaved.
NextConc ==
  \/ \E t \in Threads : Step(t, ConcArgs)
  \/ Exit
  \/ RunExitFunc

SpecConc == Init /\ [][NextConc]_vars


\* ------------------------------------------------------------- rendering
\* ast_to_source applied to one node or to a list of two, whatever text of
\* at most MaxLen characters the generator emits for each.
RenderInputs ==
  {Node(a) : a \in TextsUpTo(MaxLen)}
    \cup {NodeList(<<a, b>>) : a \in TextsUpTo(MaxLen), b \in TextsUpTo(MaxLen)}

RenderInit ==
  /\ ProcInit
  /\ rin \in RenderInputs
  /\ rout = <<>>
  /\ rstage = "input"

Render ==
  /\ rstage = "input"
  /\ rout' = ast_to_source(rin)
  /\ rstage' = "rendered"
  /\ UNCHANGED <<rin, procVars>>

\* The normalisation applied to its own result.
Renormalise ==
  /\ rstage = "rendered"
  /\ rout' = StripLeadingBlankLines(rout)
  /\ rstage' = "again"
  /\ UNCHANGED <<rin, procVars>>

NextRender == Render \/ Renormalise

SpecRender == RenderInit /\ [][NextRender]_vars


\* ------------------------------------------------------ claims: rendering
\* A line is blank when it is empty or holds spaces only.
IsBlankLine(l) == \A i \in 1 .. Len(l) : l[i] = SP

\* The lines from the first non-blank one on.
FromFirstNonBlank(lines) ==
  LET nonBlank == {i \in 1 .. Len(lines) : ~IsBlankLine(lines[i])}
  IN IF nonBlank = {} THEN <<>>
     ELSE SubSeq(lines, CHOOSE i \in nonBlank : \A j \in nonBlank : i <= j, Len(lines))

\* The text the generator accumulated for the argument rin.
EmittedCode == EmitAll(AsTuple(rin), <<>>)

\* C7: the normalisation returns the emitted lines without their maximal
\* prefix of blank lines: the result is empty or starts with a non-blank
\* line, every line from the first non-blank one on is kept, in order, and
\* normalising the result again changes nothing.
C7_LeadingBlankLinesStripped ==
  rstage \in {"rendered", "again"} =>
    LET kept == FromFirstNonBlank(Split(EmittedCode))
    IN /\ rout = Join(kept)
       /\ kept # <<>> => Split(rout) = kept
       /\ rout = <<>> \/ ~IsBlankLine(Split(rout)[1])

\* Leading blank lines were dropped, a blank line after the first non-blank
\* line was kept, and the normalisation has been applied twice.
C7_Witness ==
  /\ rstage = "again"
  /\ IsBlankLine(Split(EmittedCode)[1])
  /\ rout # <<>>
  /\ \E i \in 2 .. Len(Split(rout)) - 1 : IsBlankLine(Split(rout)[i])

\* What rendering one node alone gives: its text and a newline, without the
\* leading blank lines.
RenderedAlone(text) == Join(FromFirstNonBlank(Split(text \o <<NL>>)))

HasNonBlank(text) == \E i \in 1 .. Len(text) : text[i] \notin Whitespace

\* C8 as stated: render([A, B]) is render(A), a newline separator, render(B);
\* the separator read either as a newline of its own or as the newline that
\* ends render(A).
C8_Original ==
  (rstage = "rendered" /\ rin.is_seq) =>
    LET ra == ast_to_source(Node(rin.list[1]))
        rb == ast_to_source(Node(rin.list[2]))
    IN rout = ra \o <<NL>> \o rb \/ rout = ra \o rb

\* C8 amended: the leading blank lines are stripped once, from the whole
\* text.  When A's text has a non-blank line, render([A, B]) is render(A)
\* followed by what the generator emitted for B, leading blank lines
\* included, and a newline; when A's text is blank throughout, it is
\* render(B).  A's text always precedes B's.
C8_SequenceOrder ==
  (rstage = "rendered" /\ rin.is_seq) =>
    LET a == rin.list[1]
        b == rin.list[2]
    IN IF HasNonBlank(a)
       THEN rout = RenderedAlone(a) \o b \o <<NL>>
       ELSE rout = RenderedAlone(b)

\* A is non-blank and B is emitted after two blank lines, which stay in the
\* result.
C8_Witness ==
  /\ rstage = "rendered"
  /\ rin.is_seq
  /\ HasNonBlank(rin.list[1])
  /\ Len(rin.list[2]) = 3
  /\ rin.list[2][1] = NL /\ rin.list[2][2] = NL /\ rin.list[2][3] = "a"
  /\ rout # ast_to_source(Node(rin.list[1])) \o ast_to_source(Node(rin.list[2]))


\* --------------------------------------------------- claims: ast_to_object
Has(events, e) == \E i \in 1 .. Len(events) : events[i] = e
Count(events, e) == Cardinality({i \in 1 .. Len(events) : events[i] = e})
Before(events, e1, e2) ==
  \A i, j \in 1 .. Len(events) : (events[i] = e1 /\ events[j] = e2) => i < j
Range(seq) == {seq[i] : i \in 1 .. Len(seq)}
IsPrefix(p, q) == Len(p) <= Len(q) /\ SubSeq(q, 1, Len(p)) = p
Started == {t \in Threads : call[t].pc # "idle"}
\* No exit callback has run yet.
BeforeCleanup == phase = "running" \/ exit_i = Len(registry)
\* The text the call is to return, computed from its arguments.
RenderedArgs(c) == ast_to_source(c.args.nodes)

\* C1 as stated: the source map is computed only after the module was loaded.
C1_Original ==
  \A t \in Threads :
    Has(call[t].events, "map") =>
      (Has(call[t].events, "load") /\ Before(call[t].events, "load", "map"))

StatementOrder ==
  <<"create", "write", "map", "close", "register", "load", "check", "attach", "return">>

PositionIn(order, e) == CHOOSE i \in 1 .. Len(order) : order[i] = e

\* C1 amended: within one call the events occur in the order create, write,
\* source map computed (inside the with block, before the file is closed),
\* close, registration, load, collision check, attachment, return.  The load
\* comes after the close of a completely written file and reads the whole
\* text; the source map is computed before the load, never after it.
C1_EventOrder ==
  \A t \in Threads :
    LET c == call[t]
        ev == SelectSeq(c.events, LAMBDA e : e # "raise")
    IN /\ \A i, j \in 1 .. Len(ev) :
            i < j => PositionIn(StatementOrder, ev[i]) < PositionIn(StatementOrder, ev[j])
       /\ Has(ev, "load") =>
            /\ Has(ev, "write") /\ Has(ev, "close")
            /\ c.loaded_text = c.source
            /\ c.args.include_source_map => Has(ev, "map")
       /\ Has(ev, "attach") => Has(ev, "map") /\ Has(ev, "load")
       /\ Has(ev, "map") => Has(ev, "write") /\ c.args.include_source_map

\* A call with include_source_map has run through to the attachment.
C1_Witness ==
  \E t \in Threads :
    /\ call[t].pc = "done"
    /\ call[t].args.include_source_map
    /\ call[t].args.delete_on_exit
    /\ Has(call[t].events, "attach")

C3_CleanupContract ==
  \A t \in Threads :
    call[t].pc = "done" =>
      IF call[t].args.delete_on_exit
      THEN Exited => call[t].f_name \notin DOMAIN fs
      ELSE /\ t \notin Range(registry)
           /\ call[t].f_name \in DOMAIN fs

\* The process has exited after a call with delete_on_exit returned.
C3_Witness ==
  /\ Exited
  /\ \E t \in Threads :
       /\ call[t].pc = "done"
       /\ call[t].args.delete_on_exit
       /\ t \in Range(registry)
       /\ call[t].f_name \notin DOMAIN fs

\* C4 as stated: a call with delete_on_exit that created its file and has
\* ended, however it ended, has a callback in the registry.
C4_NoLeakOnEarlyExit ==
  \A t \in Threads :
    (call[t].args.delete_on_exit /\ call[t].pc \in {"done", "failed"}) =>
      t \in Range(registry)

\* C5 as stated: until exit cleanup starts the file exists and holds the
\* text that f.write accepted.
C5_Original ==
  BeforeCleanup =>
    \A t \in Started :
      /\ call[t].f_name \in DOMAIN fs
      /\ fs[call[t].f_name] = call[t].written

\* C5 amended: until exit cleanup starts the file of every call exists, also
\* during the load, after the return and after a failure.  From the close of
\* the file on it holds all the text f.write accepted (the whole source
\* unless the write failed); between f.write and the close it holds a prefix
\* of it, the rest being in the file object's buffer.
C5_NeverDeletedEarly ==
  BeforeCleanup =>
    \A t \in Started :
      /\ call[t].f_name \in DOMAIN fs
      /\ IsPrefix(fs[call[t].f_name], call[t].written)
      /\ Has(call[t].events, "close") => fs[call[t].f_name] = call[t].written
      /\ (Has(call[t].events, "close") /\ call[t].exc # "io") =>
           fs[call[t].f_name] = call[t].source

\* Shutdown has begun, no callback has run yet, and the registered file of a
\* call that returned is still whole.
C5_Witness ==
  /\ phase = "exiting"
  /\ exit_i = Len(registry)
  /\ \E t \in Threads :
       /\ call[t].pc = "done"
       /\ t \in Range(registry)
       /\ call[t].source # <<>>
       /\ fs[call[t].f_name] = call[t].source

\* C6 as stated: with any source_prefix string, the empty one included, the
\* text returned is the prefix, a newline, the rendered nodes.
C6_Original ==
  \A t \in Threads :
    call[t].pc = "done" =>
      call[t].result.source =
        IF call[t].args.source_prefix = None THEN RenderedArgs(call[t])
        ELSE call[t].args.source_prefix \o <<NL>> \o RenderedArgs(call[t])

\* C6 amended: with a non-empty source_prefix the text returned is the
\* prefix, one newline, the rendered nodes; with None or the empty string it
\* is the rendered nodes alone.  The same text is on disk and was loaded.
C6_PrefixThenNewline ==
  \A t \in Threads :
    call[t].pc = "done" =>
      LET expected ==
            IF call[t].args.source_prefix \in {None, <<>>} THEN RenderedArgs(call[t])
            ELSE call[t].args.source_prefix \o <<NL>> \o RenderedArgs(call[t])
      IN /\ call[t].result.source = expected
         /\ call[t].loaded_text = expected
         /\ BeforeCleanup => fs[call[t].f_name] = expected

\* A call with a non-empty prefix has returned.
C6_Witness ==
  \E t \in Threads :
    /\ call[t].pc = "done"
    /\ call[t].args.source_prefix = <<"p">>
    /\ call[t].result.source = <<"p", NL, "a", NL>>

\* C9: after a call with include_source_map returned, the namespace is the
\* loaded one plus the binding of the reserved key to the source map, all
\* other bindings as loaded, attached once; after a call without it, the
\* namespace is the loaded one, the collaborator was not called and the
\* key was not checked.
C9_AttachFrame ==
  \A t \in Threads :
    LET c == call[t]
        ns == sys_modules[c.module_name]
    IN c.pc = "done" =>
         IF c.args.include_source_map
         THEN /\ DOMAIN ns = DOMAIN c.loaded_ns \cup {SourceMapName}
              /\ SourceMapName \notin DOMAIN c.loaded_ns
              /\ \A k \in DOMAIN c.loaded_ns : ns[k] = c.loaded_ns[k]
              /\ ns[SourceMapName] = c.source_map
              /\ c.source_map.kind = "map"
              /\ Count(c.events, "attach") = 1
              /\ Count(c.events, "map") = 1
         ELSE /\ ns = c.loaded_ns
              /\ c.source_map = NoMap
              /\ Count(c.events, "map") = 0
              /\ Count(c.events, "check") = 0
              /\ Count(c.events, "attach") = 0

\* The map has been attached beside a binding made by the generated code.
C9_Witness ==
  \E t \in Threads :
    /\ call[t].pc = "done"
    /\ call[t].args.include_source_map
    /\ "a" \in DOMAIN call[t].loaded_ns
    /\ SourceMapName \in DOMAIN sys_modules[call[t].module_name]

\* The calls that went past the registration statement.
PastRegistration ==
  {t \in Threads : Has(call[t].events, "close") /\ call[t].exc \notin {"io", "map"}
                     /\ call[t].pc # "register"}

\* C10: with the calls of several threads interleaved, each call has a file
\* name of its own and loads the text it wrote; the registry holds exactly
\* one callback for each call with delete_on_exit that went past the
\* registration, in the order of registration; a callback removes the file
\* of its own call only, so the file of a call without a callback is never
\* removed and after exit exactly the registered files are gone.
C10_CallsIsolated ==
  /\ \A t, u \in Started : t # u => call[t].f_name # call[u].f_name
  /\ \A t \in Started :
       /\ Has(call[t].events, "load") => call[t].loaded_text = call[t].source
       /\ t \notin Range(registry) => call[t].f_name \in DOMAIN fs
       /\ Exited => (call[t].f_name \in DOMAIN fs <=> t \notin Range(registry))
  /\ Range(registry) = {t \in PastRegistration : call[t].args.delete_on_exit}
  /\ Cardinality(Range(registry)) = Len(registry)

\* Two calls with different texts ran interleaved, both registered, and the
\* process has exited.
C10_Witness ==
  /\ Exited
  /\ Len(registry) = 2
  /\ \E t, u \in Threads :
       /\ t # u
       /\ call[t].pc = "done" /\ call[u].pc = "done"
       /\ call[t].source # call[u].source
       /\ registry = <<u, t>>
       /\ t < u

====
